---- MODULE Spec2Model ----
(***************************************************************************)
(* Rate-limited transport of rmcp (crates/rmcp/src/transport/              *)
(* rate_limited.rs): per-category token buckets, the message rate limiter  *)
(* and the transport decorator that checks before it forwards.             *)
(*                                                                         *)
(* Time is a monotonic clock counted in ticks, TicksPerSec ticks to the    *)
(* second.  A token count is an f64 in the code; here it is a fixed-point  *)
(* number counted in units of 1/TicksPerSec token, so that                 *)
(* elapsed_secs * max_per_second is the exact integer ticks * rate.        *)
(***************************************************************************)
EXTENDS Integers, Sequences, FiniteSets, TLC

VARIABLES
    now,          \* reading of the monotonic clock (Instant::now()), in ticks
    role,         \* the ServiceRole R the transport is instantiated with
    buckets,      \* MessageRateLimiter.buckets : MessageType -> TokenBucket
    limiterLock,  \* holder of the Mutex around the MessageRateLimiter (0: free)
    innerLock,    \* holder of the Mutex around the inner transport (0: free)
    pc,           \* per task: where its send future stands
    item,         \* per task: the message its send future owns
    sid,          \* per task: identity of the send call it is running
    budget,       \* send calls the callers will still make
    hist,         \* per send call: what was sent, the check's verdict, the outcome
    wire,         \* the inner transport's send invocations, in order
    tb,           \* a stand-alone TokenBucket (unit level)
    run,          \* what has been done to tb since its last reset point
    last,         \* the last operation applied to tb
    arg,          \* the arguments of the last call of a function under test
    ret,          \* what that call returned
    seen,         \* per message: the categories the classifier has returned for it
    inbox,        \* inbound messages the inner transport has yet to yield
    iolog         \* per receive or close call: what the inner transport did, the outcome

vars == <<now, role, buckets, limiterLock, innerLock, pc, item, sid, budget,
          hist, wire, tb, run, last, arg, ret, seen, inbox, iolog>>

transportVars == <<role, buckets, limiterLock, innerLock, pc, item, sid,
                   budget, hist, wire>>

bucketVars == <<tb, run, last>>

callVars == <<arg, ret, seen>>

ioVars == <<inbox, iolog>>

\* no function has been called on its own
CallUnused ==
    /\ arg = [op |-> "none"]
    /\ ret = [tag |-> "none"]
    /\ seen = << >>

\* the inner transport has nothing inbound and nothing was received or closed
IoUnused ==
    /\ inbox = << >>
    /\ iolog = << >>

-----------------------------------------------------------------------------
(* Bounds of the model *)

\* ticks of the model clock per second
TicksPerSec == 10

\* the transport clock stops advancing here
MaxNow == 1

\* the stand-alone bucket's clock stops advancing here
MaxBucketNow == 10

\* send calls made in one behaviour by concurrent senders
MaxSends == 3

\* send calls made in one behaviour by a single sender
MaxSeqSends == 7

\* try_consume calls counted on the stand-alone bucket
MaxCalls == 6

-----------------------------------------------------------------------------
(* Arithmetic helpers *)

Min(a, b) == IF a <= b THEN a ELSE b

Max(a, b) == IF a >= b THEN a ELSE b

\* 1.0 as a fixed-point token count
One == TicksPerSec

\* a u32 converted with `as f64`
AsF64(n) == n * One

-----------------------------------------------------------------------------
(* MessageType and the configuration *)

MessageType ==
    {"ProgressNotification", "LoggingMessage", "SamplingRequest",
     "CompletionRequest", "ElicitationRequest", "ToolCall", "Other"}

new_unchecked(max_per_second, burst_capacity) ==
    [max_per_second |-> max_per_second, burst_capacity |-> burst_capacity]

MaxRate == 100000

MaxBurst == 10000

BurstWindowSecs == 60

\* a constructor whose bounds are exclusive: it refuses the largest valid values
TokenBucketConfig_newExclusive(max_per_second, burst_capacity) ==
    IF max_per_second = 0 \/ max_per_second >= MaxRate
    THEN [tag |-> "Err", err |-> [tag |-> "InvalidRateLimit", value |-> max_per_second]]
    ELSE IF burst_capacity = 0 \/ burst_capacity >= MaxBurst
    THEN [tag |-> "Err", err |-> [tag |-> "InvalidBurstCapacity", value |-> burst_capacity]]
    ELSE IF burst_capacity >= max_per_second * BurstWindowSecs
    THEN [tag |-> "Err", err |-> [tag |-> "UnreasonableBurst",
                                  rate |-> max_per_second, burst |-> burst_capacity]]
    ELSE [tag |-> "Ok", config |-> new_unchecked(max_per_second, burst_capacity)]

\* a constructor that validates the burst capacity before the rate
TokenBucketConfig_newBurstFirst(max_per_second, burst_capacity) ==
    IF burst_capacity = 0 \/ burst_capacity > MaxBurst
    THEN [tag |-> "Err", err |-> [tag |-> "InvalidBurstCapacity", value |-> burst_capacity]]
    ELSE IF max_per_second = 0 \/ max_per_second > MaxRate
    THEN [tag |-> "Err", err |-> [tag |-> "InvalidRateLimit", value |-> max_per_second]]
    ELSE IF burst_capacity > max_per_second * BurstWindowSecs
    THEN [tag |-> "Err", err |-> [tag |-> "UnreasonableBurst",
                                  rate |-> max_per_second, burst |-> burst_capacity]]
    ELSE [tag |-> "Ok", config |-> new_unchecked(max_per_second, burst_capacity)]

\* TokenBucketConfig::new : Ok(config) or Err(ConfigError)
TokenBucketConfig_new(max_per_second, burst_capacity) ==
    IF max_per_second = 0 \/ max_per_second > MaxRate
    THEN [tag |-> "Err", err |-> [tag |-> "InvalidRateLimit", value |-> max_per_second]]
    ELSE IF burst_capacity = 0 \/ burst_capacity > MaxBurst
    THEN [tag |-> "Err", err |-> [tag |-> "InvalidBurstCapacity", value |-> burst_capacity]]
    ELSE IF burst_capacity > max_per_second * BurstWindowSecs
    THEN [tag |-> "Err", err |-> [tag |-> "UnreasonableBurst",
                                  rate |-> max_per_second, burst |-> burst_capacity]]
    ELSE [tag |-> "Ok", config |-> new_unchecked(max_per_second, burst_capacity)]

\* a default table whose sampling entry has rate and burst the wrong way round
RateLimitConfig_defaultSwapped ==
    [t \in MessageType |->
        CASE t = "ProgressNotification" -> new_unchecked(10, 5)
          [] t = "LoggingMessage"       -> new_unchecked(50, 10)
          [] t = "SamplingRequest"      -> new_unchecked(1, 2)
          [] t = "CompletionRequest"    -> new_unchecked(5, 2)
          [] t = "ElicitationRequest"   -> new_unchecked(1, 1)
          [] t = "ToolCall"             -> new_unchecked(20, 5)
          [] t = "Other"                -> new_unchecked(100, 20)]

\* RateLimitConfig::default(), keyed by the MessageType each field seeds
RateLimitConfig_default ==
    [t \in MessageType |->
        CASE t = "ProgressNotification" -> new_unchecked(10, 5)
          [] t = "LoggingMessage"       -> new_unchecked(50, 10)
          [] t = "SamplingRequest"      -> new_unchecked(2, 1)
          [] t = "CompletionRequest"    -> new_unchecked(5, 2)
          [] t = "ElicitationRequest"   -> new_unchecked(1, 1)
          [] t = "ToolCall"             -> new_unchecked(20, 5)
          [] t = "Other"                -> new_unchecked(100, 20)]

-----------------------------------------------------------------------------
(* TokenBucket *)

TokenBucket_new(config, t) ==
    [tokens |-> AsF64(config.burst_capacity), last_refill |-> t, config |-> config]

MAX_ELAPSED_SECS == 86400

\* a duration that goes negative when the clock reading is the earlier one
duration_since_signed(t, earlier) == t - earlier

\* Instant::saturating_duration_since
saturating_duration_since(t, earlier) == IF t >= earlier THEN t - earlier ELSE 0

\* a clamp of half a minute instead of a day
ElapsedClampedShort(elapsed) == Min(elapsed, 30 * TicksPerSec)

\* elapsed.as_secs_f64().min(MAX_ELAPSED_SECS), in ticks
ElapsedClamped(elapsed) == Min(elapsed, MAX_ELAPSED_SECS * TicksPerSec)

\* elapsed_secs.mul_add(max_per_second as f64, 0.0), in token units
TokensToAdd(b, t) ==
    ElapsedClamped(saturating_duration_since(t, b.last_refill)) * b.config.max_per_second

\* a refill that truncates the elapsed time to whole seconds
RefillWholeSecs(b, t) ==
    LET secs == ElapsedClamped(saturating_duration_since(t, b.last_refill)) \div TicksPerSec
    IN [b EXCEPT !.tokens = Max(Min(b.tokens + secs * TicksPerSec * b.config.max_per_second,
                                    AsF64(b.config.burst_capacity)), 0),
                 !.last_refill = t]

\* a refill that does not cap the count at the burst capacity
RefillNoCap(b, t) ==
    [b EXCEPT !.tokens = Max(b.tokens + TokensToAdd(b, t), 0), !.last_refill = t]

\* a refill that forgets what the bucket held
RefillDropsBalance(b, t) ==
    [b EXCEPT !.tokens = Max(Min(TokensToAdd(b, t), AsF64(b.config.burst_capacity)), 0),
              !.last_refill = t]

\* TokenBucket::refill at clock reading t
Refill(b, t) ==
    [b EXCEPT !.tokens = Max(Min(b.tokens + TokensToAdd(b, t),
                                 AsF64(b.config.burst_capacity)), 0),
              !.last_refill = t]

\* a consume that asks for more than one whole token
ConsumeStrict(b) ==
    IF b.tokens > One
    THEN [ok |-> TRUE, bucket |-> [b EXCEPT !.tokens = b.tokens - One]]
    ELSE [ok |-> FALSE, bucket |-> b]

\* a consume that subtracts without looking at the count
ConsumeUnchecked(b) == [ok |-> TRUE, bucket |-> [b EXCEPT !.tokens = b.tokens - One]]

\* a consume that debits the token even when it refuses
ConsumeDebit(b) ==
    [ok |-> b.tokens >= One, bucket |-> [b EXCEPT !.tokens = @ - One]]

\* a consume that empties the bucket when it refuses
ConsumeDrain(b) ==
    IF b.tokens >= One
    THEN [ok |-> TRUE, bucket |-> [b EXCEPT !.tokens = b.tokens - One]]
    ELSE [ok |-> FALSE, bucket |-> [b EXCEPT !.tokens = 0]]

\* the test and decrement of TokenBucket::try_consume, after its refill
Consume(b) ==
    IF b.tokens >= One
    THEN [ok |-> TRUE, bucket |-> [b EXCEPT !.tokens = b.tokens - One]]
    ELSE [ok |-> FALSE, bucket |-> b]

\* a try_consume that skips the refill while a token is at hand
try_consumeLazy(b, t) == IF b.tokens >= One THEN Consume(b) ELSE Consume(Refill(b, t))

\* a try_consume whose refusal discards what the refill had added
try_consumeForgetful(b, t) ==
    IF Refill(b, t).tokens >= One
    THEN Consume(Refill(b, t))
    ELSE [ok |-> FALSE, bucket |-> [b EXCEPT !.last_refill = t]]

\* TokenBucket::try_consume at clock reading t : the result and the bucket after
try_consume(b, t) == Consume(Refill(b, t))

-----------------------------------------------------------------------------
(* Messages and their classification *)

Roles == {"RoleClient", "RoleServer"}

\* R::Req and R::Not of a ServiceRole
ReqType(r) == IF r = "RoleClient" THEN "ClientRequest" ELSE "ServerRequest"

NotType(r) == IF r = "RoleClient" THEN "ClientNotification" ELSE "ServerNotification"

Request(variant) == [shape |-> "Request", variant |-> variant]

Notification(variant) == [shape |-> "Notification", variant |-> variant]

Response == [shape |-> "Response", variant |-> "Result"]

ErrorMessage == [shape |-> "Error", variant |-> "ErrorData"]

classify_client_request(request) ==
    CASE request = "CompleteRequest" -> "CompletionRequest"
      [] request = "CallToolRequest" -> "ToolCall"
      [] OTHER -> "Other"

classify_server_request(request) ==
    CASE request = "CreateMessageRequest" -> "SamplingRequest"
      [] request = "CreateElicitationRequest" -> "ElicitationRequest"
      [] OTHER -> "Other"

classify_client_notification(notification) ==
    CASE notification = "ProgressNotification" -> "ProgressNotification"
      [] OTHER -> "Other"

\* a server classifier that forgets the logging arm
classify_server_notificationNoLogging(notification) ==
    CASE notification = "ProgressNotification" -> "ProgressNotification"
      [] OTHER -> "Other"

classify_server_notification(notification) ==
    CASE notification = "ProgressNotification" -> "ProgressNotification"
      [] notification = "LoggingMessageNotification" -> "LoggingMessage"
      [] OTHER -> "Other"

\* classify_request::<Req>, Req given by its TypeId
classify_request(type_id, request) ==
    IF type_id = "ClientRequest" THEN classify_client_request(request)
    ELSE IF type_id = "ServerRequest" THEN classify_server_request(request)
    ELSE "Other"

\* classify_notification::<Not>, Not given by its TypeId
classify_notification(type_id, notification) ==
    IF type_id = "ClientNotification" THEN classify_client_notification(notification)
    ELSE IF type_id = "ServerNotification" THEN classify_server_notification(notification)
    ELSE "Other"

\* a classifier that consults the clock: requests count as Other once time
\* has passed
classify_messageByClock(r, msg) ==
    CASE msg.shape = "Request" /\ now = 0 -> classify_request(ReqType(r), msg.variant)
      [] msg.shape = "Notification" -> classify_notification(NotType(r), msg.variant)
      [] OTHER -> "Other"

\* classify_message::<R>
classify_message(r, msg) ==
    CASE msg.shape = "Request" -> classify_request(ReqType(r), msg.variant)
      [] msg.shape = "Notification" -> classify_notification(NotType(r), msg.variant)
      [] OTHER -> "Other"

-----------------------------------------------------------------------------
(* MessageRateLimiter *)

\* a constructor that forgets the tool-call bucket
MessageRateLimiter_newNoToolCall(config, t) ==
    [m \in MessageType \ {"ToolCall"} |-> TokenBucket_new(config[m], t)]

MessageRateLimiter_new(config, t) ==
    [m \in MessageType |-> TokenBucket_new(config[m], t)]

Ok == [tag |-> "Ok"]

\* the result of a send that has not returned yet
Pending == [tag |-> "Pending"]

\* the item of a task that is not sending
NoMessage == [shape |-> "None", variant |-> "None"]

Exceeded(message_type) == [tag |-> "Exceeded", message_type |-> message_type]

\* a check that draws every category's token from the one bucket of Other
check_limitShared(bs, r, msg, t) ==
    LET msg_type == classify_message(r, msg)
        c == try_consume(bs["Other"], t)
    IN  [res |-> IF c.ok THEN Ok ELSE [tag |-> "Err", err |-> Exceeded(msg_type)],
         buckets |-> [bs EXCEPT !["Other"] = c.bucket]]

\* a check that fails closed when the category has no bucket
check_limitFailClosed(bs, r, msg, t) ==
    LET msg_type == classify_message(r, msg) IN
    IF msg_type \in DOMAIN bs
    THEN LET c == try_consume(bs[msg_type], t) IN
         [res |-> IF c.ok THEN Ok ELSE [tag |-> "Err", err |-> Exceeded(msg_type)],
          buckets |-> [bs EXCEPT ![msg_type] = c.bucket]]
    ELSE [res |-> [tag |-> "Err", err |-> Exceeded(msg_type)], buckets |-> bs]

\* MessageRateLimiter::check_limit at clock reading t : the Result and the
\* bucket map after the call
check_limit(bs, r, msg, t) ==
    LET msg_type == classify_message(r, msg) IN
    IF msg_type \in DOMAIN bs
    THEN LET c == try_consume(bs[msg_type], t) IN
         [res |-> IF c.ok THEN Ok ELSE [tag |-> "Err", err |-> Exceeded(msg_type)],
          buckets |-> [bs EXCEPT ![msg_type] = c.bucket]]
    ELSE [res |-> Ok, buckets |-> bs]

-----------------------------------------------------------------------------
(* RateLimitedTransport: concurrent send futures on one decorator *)

\* tasks that call send on clones of the same decorator
NumSenders == 2

\* failures the inner transport may answer with in one behaviour
MaxFaults == 1

Senders == 1 .. NumSenders

\* the messages the callers send, by role
SendMsgs(r) ==
    IF r = "RoleClient"
    THEN {Notification("ProgressNotification"), Request("CompleteRequest")}
    ELSE {Request("CreateMessageRequest"), Response}

RateLimitError(e) == [tag |-> "RateLimit", err |-> e]

TransportError(e) == [tag |-> "Transport", err |-> e]

\* a RateLimitConfig that overrides two fields of the default:
\* RateLimitConfig { sampling_requests: .., completion_requests: .., ..Default::default() }
TightConfig ==
    [RateLimitConfig_default EXCEPT !["SamplingRequest"] = new_unchecked(10, 1),
                                    !["CompletionRequest"] = new_unchecked(10, 1)]

\* RateLimitedTransport::new(transport, config) for a role among R, shared by
\* the tasks in S, which make n send calls between them
TransportInit(R, S, n, config) ==
    /\ now = 0
    /\ role \in R
    /\ buckets = MessageRateLimiter_new(config, 0)
    /\ limiterLock = 0
    /\ innerLock = 0
    /\ pc = [s \in S |-> "idle"]
    /\ item = [s \in S |-> NoMessage]
    /\ sid = [s \in S |-> 0]
    /\ budget = n
    /\ hist = << >>
    /\ wire = << >>
    /\ tb = TokenBucket_new(new_unchecked(10, 5), 0)
    /\ run = [kind |-> "new", calls |-> 0, oks |-> 0]
    /\ last = [op |-> "new", elapsed |-> 0, ok |-> TRUE, before |-> tb.tokens]
    /\ CallUnused
    /\ IoUnused

Init == TransportInit({"RoleServer"}, Senders, MaxSends, TightConfig)

\* one task that awaits each send before it makes the next
SeqInit == TransportInit(Roles, {1}, MaxSeqSends, RateLimitConfig_default)

\* a send that forgets the check and goes straight to the inner transport
SendEntryNoCheck == "lock_inner"

\* where the future returned by send starts: rate_limiter.lock().await
SendEntry == "lock_limiter"

\* positions of a receive or close future; it borrows the transport (&mut self)
\* for as long as it lives
BorrowPcs == {"recv_lock", "inner_recv", "close_lock", "inner_close"}

Borrowed == \E t \in DOMAIN pc : pc[t] \in BorrowPcs

\* a call of send(item): the future is created and owns item
Send ==
    \E s \in DOMAIN pc :
        /\ pc[s] = "idle"
        /\ ~Borrowed
        /\ budget > 0
        /\ \E m \in SendMsgs(role) :
              /\ item' = [item EXCEPT ![s] = m]
              /\ hist' = Append(hist, [msg |-> m, verdict |-> "pending",
                                       inner |-> "none", result |-> Pending])
        /\ budget' = budget - 1
        /\ sid' = [sid EXCEPT ![s] = Len(hist) + 1]
        /\ pc' = [pc EXCEPT ![s] = SendEntry]
        /\ UNCHANGED <<now, role, buckets, limiterLock, innerLock, wire, bucketVars, callVars, ioVars>>

\* a limiter mutex that lets everyone in
LimiterAlwaysFree == TRUE

\* rate_limiter.lock() can be granted
LimiterFree == limiterLock = 0

\* rate_limiter.lock().await returns the guard
AcquireLimiter ==
    \E s \in DOMAIN pc :
        /\ pc[s] = "lock_limiter"
        /\ LimiterFree
        /\ limiterLock' = s
        /\ pc' = [pc EXCEPT ![s] = "check"]
        /\ UNCHANGED <<now, role, buckets, innerLock, item, sid, budget, hist, wire,
                       bucketVars, callVars, ioVars>>

\* a send that forwards whatever the check answered
AfterCheckIgnoreVerdict(res) == "lock_inner"

\* the `?` after check_limit: Err returns from send, Ok goes on to inner.lock()
AfterCheck(res) == IF res.tag = "Ok" THEN "lock_inner" ELSE "idle"

\* a guard that is kept until the end of send
GuardKept(s) == s

\* the limiter guard is dropped at the end of its block, or by the `?`
GuardDropped(s) == 0

\* limiter.check_limit(&item) under the guard, then the guard is dropped
CheckLimit ==
    \E s \in DOMAIN pc :
        /\ pc[s] = "check"
        /\ LET r == check_limit(buckets, role, item[s], now) IN
              /\ buckets' = r.buckets
              /\ pc' = [pc EXCEPT ![s] = AfterCheck(r.res)]
              /\ hist' = [hist EXCEPT ![sid[s]] =
                            [@ EXCEPT !.verdict = IF r.res.tag = "Ok" THEN "allow" ELSE "deny",
                                      !.result = IF r.res.tag = "Ok" THEN @
                                                 ELSE RateLimitError(r.res.err)]]
        /\ limiterLock' = GuardDropped(s)
        /\ UNCHANGED <<now, role, innerLock, item, sid, budget, wire, bucketVars, callVars, ioVars>>

\* an inner send that is invoked twice for one message
InvokeTwice(w, id, msg) == w \o <<[id |-> id, msg |-> msg], [id |-> id, msg |-> msg]>>

\* a decorator that hands the newest approved item over ahead of the earlier ones
InvokeFront(w, id, msg) == <<[id |-> id, msg |-> msg]>> \o w

\* transport.send(item): the inner transport's send is invoked with the item
Invoke(w, id, msg) == Append(w, [id |-> id, msg |-> msg])

\* an inner mutex that serves the waiting senders in the order of their calls
InnerGrantInCallOrder(s) ==
    /\ innerLock = 0
    /\ \A t \in DOMAIN pc : pc[t] = "lock_inner" => sid[s] <= sid[t]

\* inner.lock() can be granted to s: the mutex is free; which of the senders
\* that have left their check reaches it first is up to the scheduler
InnerGrant(s) == innerLock = 0

\* inner.lock().await returns the guard and transport.send(item) is invoked
AcquireInner ==
    \E s \in DOMAIN pc :
        /\ pc[s] = "lock_inner"
        /\ InnerGrant(s)
        /\ innerLock' = s
        /\ wire' = Invoke(wire, sid[s], item[s])
        /\ pc' = [pc EXCEPT ![s] = "inner_send"]
        /\ UNCHANGED <<now, role, buckets, limiterLock, item, sid, budget, hist, bucketVars, callVars, ioVars>>

\* an inner failure reported as a success
MapErrSwallow(out) == Ok

\* .map_err(RateLimitedTransportError::Transport) on the inner send's result
MapErr(out) == IF out = "ok" THEN Ok ELSE TransportError(out)

Faults == Cardinality({i \in 1 .. Len(hist) : hist[i].inner \notin {"none", "ok"}})

\* the inner transport's send completes; send returns its result
InnerSendReturn ==
    \E s \in DOMAIN pc :
        /\ pc[s] = "inner_send"
        /\ \E out \in {"ok", "io_error"} :
              /\ out = "ok" \/ Faults < MaxFaults
              /\ hist' = [hist EXCEPT ![sid[s]] =
                            [@ EXCEPT !.inner = out, !.result = MapErr(out)]]
        /\ innerLock' = 0
        /\ pc' = [pc EXCEPT ![s] = "idle"]
        /\ UNCHANGED <<now, role, buckets, limiterLock, item, sid, budget, wire, bucketVars, callVars, ioVars>>

\* the monotonic clock advances
Tick ==
    /\ now < MaxNow
    /\ now' = now + 1
    /\ UNCHANGED <<transportVars, bucketVars, callVars, ioVars>>

Next ==
    \/ Send
    \/ AcquireLimiter
    \/ CheckLimit
    \/ AcquireInner
    \/ InnerSendReturn
    \/ Tick

Spec == Init /\ [][Next]_vars

SeqSpec == SeqInit /\ [][Next]_vars

-----------------------------------------------------------------------------
(* Claims about the transport decorator (Spec, SeqSpec) *)

Ids == 1 .. Len(hist)

\* how many times the inner transport's send was invoked for send call i
OnWire(i) == Cardinality({k \in 1 .. Len(wire) : wire[k].id = i})

Category(i) == classify_message(role, hist[i].msg)

Returned(i) == hist[i].result # Pending

\* send calls of category c whose check has answered, and those it allowed
CheckedOf(c) == {i \in Ids : Category(i) = c /\ hist[i].verdict # "pending"}

AllowedOf(c) == {i \in Ids : Category(i) = c /\ hist[i].verdict = "allow"}

\* C1: no message whose check returned Exceeded is ever handed to the inner
\* transport's send, during its send call or at any later time.
C1_DeniedNeverForwarded ==
    \A k \in 1 .. Len(wire) : hist[wire[k].id].verdict # "deny"

\* a send was denied; later its bucket refilled and a later send of the same
\* category was forwarded, and the denied one still never reached the wire
C1_Witness ==
    \E i, j \in Ids :
        /\ i < j
        /\ Category(i) = Category(j)
        /\ hist[i].verdict = "deny"
        /\ OnWire(i) = 0
        /\ hist[j].verdict = "allow"
        /\ OnWire(j) = 1
        /\ Returned(j)

\* C2: no send call invokes the inner send more than once; what is handed over
\* is the message the caller passed to send; an allowed send that has returned
\* invoked the inner send exactly once and returned Ok exactly when the inner
\* send succeeded.
C2_AllowedForwardedOnce ==
    /\ \A i \in Ids : OnWire(i) <= 1
    /\ \A k \in 1 .. Len(wire) : wire[k].msg = hist[wire[k].id].msg
    /\ \A i \in Ids :
          (hist[i].verdict = "allow" /\ Returned(i))
          => /\ OnWire(i) = 1
             /\ (hist[i].result = Ok) <=> (hist[i].inner = "ok")

\* two allowed sends have both been forwarded and returned Ok
C2_Witness ==
    \E i, j \in Ids :
        /\ i # j
        /\ hist[i].result = Ok /\ hist[j].result = Ok
        /\ OnWire(i) = 1 /\ OnWire(j) = 1

\* C3: the inner send is invoked only for a send whose check has already
\* answered allow: every invocation belongs to an allowed send, and the
\* invocations never outnumber the checks that answered allow.
C3_CheckBeforeForward ==
    /\ \A k \in 1 .. Len(wire) : hist[wire[k].id].verdict = "allow"
    /\ Len(wire) <= Cardinality({i \in Ids : hist[i].verdict = "allow"})

\* one allowed send is on the wire while another allowed send has not been
\* forwarded yet
C3_Witness ==
    /\ Len(wire) = 1
    /\ \E s \in DOMAIN pc : pc[s] = "lock_inner" /\ hist[sid[s]].verdict = "allow"

\* C4: a send that has returned an error names its cause: RateLimit(Exceeded)
\* exactly when its check denied it, Transport(e) exactly when its check allowed
\* it and the inner send failed with e; it never returns a configuration error.
C4_ErrorNamesCause ==
    \A i \in Ids :
        Returned(i)
        => /\ hist[i].result.tag \in {"Ok", "RateLimit", "Transport"}
           /\ (hist[i].result.tag = "RateLimit") <=> (hist[i].verdict = "deny")
           /\ hist[i].result.tag = "RateLimit"
                 => hist[i].result.err = Exceeded(Category(i))
           /\ (hist[i].result.tag = "Transport")
                 <=> (hist[i].verdict = "allow" /\ hist[i].inner \notin {"none", "ok"})
           /\ hist[i].result.tag = "Transport"
                 => hist[i].result.err = hist[i].inner

\* one send was rejected by the limiter and another failed in the inner transport
C4_Witness ==
    \E i, j \in Ids :
        /\ hist[i].result = RateLimitError(Exceeded("SamplingRequest"))
        /\ hist[j].result = TransportError("io_error")

\* C5: a sender that waits for or holds the inner transport lock, or whose
\* inner send is in progress, does not hold the limiter lock.
C5_LimiterReleasedBeforeForward ==
    \A s \in DOMAIN pc :
        (pc[s] \in {"lock_inner", "inner_send"} \/ innerLock = s) => limiterLock # s

\* one sender's inner send is in progress while another sender holds the
\* limiter lock for its check
C5_Witness ==
    \E s, t \in DOMAIN pc :
        /\ s # t
        /\ pc[s] = "inner_send"
        /\ innerLock = s
        /\ limiterLock = t
        /\ pc[t] = "check"

\* C7: a fresh bucket holds burst tokens, and while no time has elapsed since
\* construction exactly the first burst consumes of a bucket succeed and every
\* later one fails; at the transport the failed ones return Exceeded for their
\* category.
C7_FreshBucketBurst ==
    now = 0 =>
        \A c \in MessageType :
            /\ Cardinality(AllowedOf(c)) =
                  Min(Cardinality(CheckedOf(c)), buckets[c].config.burst_capacity)
            /\ buckets[c].tokens =
                  AsF64(buckets[c].config.burst_capacity - Cardinality(AllowedOf(c)))
            /\ \A i \in CheckedOf(c) \ AllowedOf(c) :
                  hist[i].result = RateLimitError(Exceeded(c))

\* rate 10, burst 5: five immediate sends succeeded and the sixth failed with
\* Exceeded
C7_Witness ==
    /\ now = 0
    /\ buckets["ProgressNotification"].config = new_unchecked(10, 5)
    /\ Len(hist) = 6
    /\ \A i \in 1 .. 6 : Category(i) = "ProgressNotification"
    /\ \A i \in 1 .. 5 : hist[i].result = Ok
    /\ hist[6].result = RateLimitError(Exceeded("ProgressNotification"))
    /\ Len(wire) = 5

\* C8: checks are serialized by the limiter lock: at most one sender is inside
\* check_limit, and it holds the lock; with N senders of one category and no
\* time elapsing on a bucket of k tokens, min(N, k) checks are allowed, the
\* rest are denied, and each allowed check took exactly one token.
C8_ChecksSerialized ==
    /\ Cardinality({s \in DOMAIN pc : pc[s] = "check"}) <= 1
    /\ \A s \in DOMAIN pc : pc[s] = "check" => limiterLock = s
    /\ now = 0 =>
          \A c \in MessageType :
              LET k == buckets[c].config.burst_capacity
                  N == Cardinality(CheckedOf(c))
              IN /\ Cardinality(AllowedOf(c)) = Min(N, k)
                 /\ Cardinality(CheckedOf(c) \ AllowedOf(c)) = N - Min(N, k)
                 /\ buckets[c].tokens + Cardinality(AllowedOf(c)) * One = AsF64(k)

\* two sends of one category were in flight together on a bucket of one token:
\* the one started second was checked first and allowed, the other was denied
C8_Witness ==
    /\ now = 0
    /\ Len(hist) >= 2
    /\ Category(1) = "SamplingRequest"
    /\ Category(2) = "SamplingRequest"
    /\ hist[1].verdict = "deny"
    /\ hist[2].verdict = "allow"

-----------------------------------------------------------------------------
(* The stand-alone TokenBucket, driven as the unit tests drive it:          *)
(* try_consume, force_refill, set_last_refill, and the clock advancing.     *)

\* configurations a TokenBucket can be built from: TokenBucketConfig's fields
\* are public, so the ones TokenBucketConfig::new refuses are among them
BucketConfigs ==
    {new_unchecked(10, 5), new_unchecked(1, 1), new_unchecked(2, 1),
     new_unchecked(5, 2), new_unchecked(3, 2),
     new_unchecked(0, 5), new_unchecked(10, 0), new_unchecked(1, 61)}

Valid(config) ==
    TokenBucketConfig_new(config.max_per_second, config.burst_capacity).tag = "Ok"

Day == MAX_ELAPSED_SECS * TicksPerSec

Year == 365 * 24 * 3600 * TicksPerSec

\* the transport is not used by the stand-alone bucket
TransportUnused ==
    /\ role = "RoleClient"
    /\ buckets = << >>
    /\ limiterLock = 0
    /\ innerLock = 0
    /\ pc = << >>
    /\ item = << >>
    /\ sid = << >>
    /\ budget = 0
    /\ hist = << >>
    /\ wire = << >>

BucketInit ==
    /\ now = 0
    /\ \E config \in BucketConfigs :
          /\ tb = TokenBucket_new(config, 0)
          /\ last = [op |-> "new", elapsed |-> 0, ok |-> TRUE, before |-> tb.tokens]
    /\ run = [kind |-> "new", calls |-> 0, oks |-> 0]
    /\ TransportUnused
    /\ CallUnused
    /\ IoUnused

\* the elapsed time an operation on tb meets, recorded up to "more than a day"
ElapsedSeen(b) == Min(saturating_duration_since(now, b.last_refill), Day + 1)

\* bucket.try_consume()
BTryConsume ==
    /\ run.calls < MaxCalls
    /\ LET r == try_consume(tb, now) IN
          /\ tb' = r.bucket
          /\ last' = [op |-> "try_consume",
                      elapsed |-> ElapsedSeen(tb),
                      ok |-> r.ok, before |-> tb.tokens,
                      early |-> now < tb.last_refill,
                      tokens_to_add |-> TokensToAdd(tb, now)]
          /\ run' = IF run.kind \in {"new", "year"}
                    THEN [run EXCEPT !.calls = run.calls + 1,
                                     !.oks = run.oks + (IF r.ok THEN 1 ELSE 0)]
                    ELSE [kind |-> "other", calls |-> 0, oks |-> 0]
    /\ UNCHANGED <<now, transportVars, callVars, ioVars>>

\* bucket.force_refill()
BForceRefill ==
    /\ tb' = Refill(tb, now)
    /\ last' = [op |-> "force_refill",
                elapsed |-> ElapsedSeen(tb),
                ok |-> TRUE, before |-> tb.tokens,
                early |-> now < tb.last_refill,
                tokens_to_add |-> TokensToAdd(tb, now)]
    /\ run' = IF run.kind = "set_year"
              THEN [kind |-> "year", calls |-> 0, oks |-> 0]
              ELSE run
    /\ UNCHANGED <<now, transportVars, callVars, ioVars>>

\* bucket.set_last_refill(instant): any instant, past or future
BSetLastRefill ==
    /\ \E instant \in {now - Year, now - Day - 1, now - 1, now + 2} :
          /\ instant # tb.last_refill
          /\ tb' = [tb EXCEPT !.last_refill = instant]
          /\ run' = [kind |-> IF now - instant = Year THEN "set_year" ELSE "other",
                     calls |-> 0, oks |-> 0]
    /\ last' = [op |-> "set_last_refill", elapsed |-> 0, ok |-> TRUE, before |-> tb.tokens]
    /\ UNCHANGED <<now, transportVars, callVars, ioVars>>

\* the monotonic clock advances while the bucket is left alone
BTick ==
    /\ \E d \in {1, 5} :
          /\ now + d <= MaxBucketNow
          /\ now' = now + d
    /\ run' = [kind |-> "other", calls |-> 0, oks |-> 0]
    /\ UNCHANGED <<tb, last, transportVars, callVars, ioVars>>

BucketNext == BTryConsume \/ BForceRefill \/ BSetLastRefill \/ BTick

BucketSpec == BucketInit /\ [][BucketNext]_vars

-----------------------------------------------------------------------------
(* Claims about the stand-alone TokenBucket (BucketSpec) *)

\* C6: after construction and after every refill and every try_consume,
\* successful or failed, under any clock values (the clock advancing,
\* last_refill moved a year into the past or into the future), the token count
\* of the bucket lies within [0, burst_capacity].
C6_TokensWithinBounds ==
    /\ 0 <= tb.tokens
    /\ tb.tokens <= AsF64(tb.config.burst_capacity)

\* a refill over more than 24 hours has just filled a partly used bucket
C6_Witness ==
    /\ last.op = "force_refill"
    /\ last.elapsed > Day
    /\ last.before < AsF64(tb.config.burst_capacity)
    /\ last.before > 0
    /\ tb.tokens = AsF64(tb.config.burst_capacity)

\* C9: for a valid configuration, a try_consume called when at least 1/rate
\* seconds have elapsed since the bucket's last refill succeeds, whatever the
\* bucket held at that last refill (an empty bucket included).
C9_ConsumeAfterOneOverRate ==
    (/\ last.op = "try_consume"
     /\ Valid(tb.config)
     /\ last.elapsed * tb.config.max_per_second >= TicksPerSec)
    => last.ok

\* rate 10: an exhausted bucket waited 100 ms and the consume succeeded
C9_Witness ==
    /\ last.op = "try_consume"
    /\ tb.config = new_unchecked(10, 5)
    /\ last.before = 0
    /\ last.elapsed * 10 = TicksPerSec
    /\ last.ok

\* C10: for a valid configuration, once last_refill has been set one year into
\* the past and refill has run, the token count is within [0, burst], and with
\* no time elapsing afterwards exactly burst consumes succeed: of the calls
\* made so far, the first burst succeeded and every later one failed.
C10_YearJumpBurst ==
    (run.kind = "year" /\ Valid(tb.config))
    => /\ 0 <= tb.tokens
       /\ tb.tokens <= AsF64(tb.config.burst_capacity)
       /\ run.oks = Min(run.calls, tb.config.burst_capacity)
       /\ tb.tokens = AsF64(tb.config.burst_capacity - run.oks)

\* rate 10, burst 5: after the year jump five consumes succeeded, the sixth failed
C10_Witness ==
    /\ run.kind = "year"
    /\ tb.config = new_unchecked(10, 5)
    /\ run.calls = 6
    /\ run.oks = 5
    /\ last.op = "try_consume"
    /\ ~last.ok

-----------------------------------------------------------------------------
(* The configuration types on their own: TokenBucketConfig::new, the public  *)
(* fields, the Default impls.                                                *)

\* u32 arguments tried: the edges of every bound of TokenBucketConfig::new
U32Samples ==
    {0, 1, 2, 10, 60, 61, 166, 167, 600, 601, 9999, 10000, 10001, 100000, 100001,
     2147483647}

\* the stand-alone bucket is not used
BucketUnused ==
    /\ tb = TokenBucket_new(new_unchecked(10, 5), 0)
    /\ run = [kind |-> "new", calls |-> 0, oks |-> 0]
    /\ last = [op |-> "new", elapsed |-> 0, ok |-> TRUE, before |-> tb.tokens]

ConfigInit ==
    /\ now = 0
    /\ TransportUnused
    /\ BucketUnused
    /\ CallUnused
    /\ IoUnused

\* TokenBucketConfig::new(max_per_second, burst_capacity)
CfgNew ==
    /\ \E max_per_second, burst_capacity \in U32Samples :
          /\ arg' = [op |-> "new", max_per_second |-> max_per_second,
                     burst_capacity |-> burst_capacity]
          /\ ret' = TokenBucketConfig_new(max_per_second, burst_capacity)
    /\ UNCHANGED <<now, transportVars, bucketVars, seen, ioVars>>

\* TokenBucketConfig { max_per_second, burst_capacity }: both fields are pub
CfgLiteral ==
    /\ \E max_per_second, burst_capacity \in U32Samples :
          /\ arg' = [op |-> "literal", max_per_second |-> max_per_second,
                     burst_capacity |-> burst_capacity]
          /\ ret' = [tag |-> "Config",
                     config |-> [max_per_second |-> max_per_second,
                                 burst_capacity |-> burst_capacity]]
    /\ UNCHANGED <<now, transportVars, bucketVars, seen, ioVars>>

\* config.burst_capacity = v on a config obtained before: the field is pub
CfgAssign ==
    /\ ret.tag \in {"Ok", "Config"}
    /\ \E v \in U32Samples :
          /\ v # ret.config.burst_capacity
          /\ arg' = [op |-> "assign", max_per_second |-> ret.config.max_per_second,
                     burst_capacity |-> v]
          /\ ret' = [tag |-> "Config",
                     config |-> [ret.config EXCEPT !.burst_capacity = v]]
    /\ UNCHANGED <<now, transportVars, bucketVars, seen, ioVars>>

\* TokenBucketConfig::default()
CfgDefault ==
    /\ arg' = [op |-> "default"]
    /\ ret' = [tag |-> "Config", config |-> new_unchecked(10, 5)]
    /\ UNCHANGED <<now, transportVars, bucketVars, seen, ioVars>>

\* RateLimitConfig::default(), called once more
CfgTable ==
    /\ arg' = [op |-> "table_default",
               calls |-> IF arg.op = "table_default" THEN 2 ELSE 1]
    /\ ret' = [tag |-> "Table", table |-> RateLimitConfig_default]
    /\ UNCHANGED <<now, transportVars, bucketVars, seen, ioVars>>

ConfigNext == CfgNew \/ CfgLiteral \/ CfgAssign \/ CfgDefault \/ CfgTable

ConfigSpec == ConfigInit /\ [][ConfigNext]_vars

\* C11: for every rate in [1, 100000] and burst in [1, 10000] with
\* burst <= 60 * rate, TokenBucketConfig::new succeeds and the config it returns
\* holds exactly that rate and that burst.
C11_ValidConfigAccepted ==
    (/\ arg.op = "new"
     /\ 1 <= arg.max_per_second /\ arg.max_per_second <= 100000
     /\ 1 <= arg.burst_capacity /\ arg.burst_capacity <= 10000
     /\ arg.burst_capacity <= 60 * arg.max_per_second)
    => /\ ret.tag = "Ok"
       /\ ret.config.max_per_second = arg.max_per_second
       /\ ret.config.burst_capacity = arg.burst_capacity

\* the largest valid rate and burst were accepted
C11_Witness ==
    /\ arg.op = "new"
    /\ arg.max_per_second = 100000
    /\ arg.burst_capacity = 10000
    /\ ret = [tag |-> "Ok", config |-> [max_per_second |-> 100000, burst_capacity |-> 10000]]

\* C12: TokenBucketConfig::new reports the first violated invariant in the
\* order rate bound, burst bound, burst/rate ratio, and the error carries the
\* offending values: InvalidRateLimit(rate) whatever the burst, else
\* InvalidBurstCapacity(burst), else UnreasonableBurst{rate, burst}.
C12_FirstViolationReported ==
    arg.op = "new" =>
        IF arg.max_per_second < 1 \/ arg.max_per_second > 100000
        THEN ret = [tag |-> "Err",
                    err |-> [tag |-> "InvalidRateLimit", value |-> arg.max_per_second]]
        ELSE IF arg.burst_capacity < 1 \/ arg.burst_capacity > 10000
        THEN ret = [tag |-> "Err",
                    err |-> [tag |-> "InvalidBurstCapacity", value |-> arg.burst_capacity]]
        ELSE IF arg.burst_capacity > 60 * arg.max_per_second
        THEN ret = [tag |-> "Err",
                    err |-> [tag |-> "UnreasonableBurst", rate |-> arg.max_per_second,
                             burst |-> arg.burst_capacity]]
        ELSE ret.tag = "Ok"

\* rate and burst were both out of bounds and the rate was reported
C12_Witness ==
    /\ arg.op = "new"
    /\ arg.max_per_second = 100001
    /\ arg.burst_capacity = 0
    /\ ret = [tag |-> "Err", err |-> [tag |-> "InvalidRateLimit", value |-> 100001]]

\* C13: every TokenBucketConfig obtained through the public interface has
\* 1 <= rate <= 100000, 1 <= burst <= 10000 and burst <= 60 * rate.
C13_ConfigNeverInvalid ==
    ret.tag \in {"Ok", "Config"} => Valid(ret.config)

\* C14: every call of RateLimitConfig::default() returns the documented table:
\* progress 10/5, logging 50/10, sampling 2/1, completion 5/2, elicitation 1/1,
\* tool-call 20/5, other 100/20.
C14_DefaultTable ==
    ret.tag = "Table" =>
        /\ DOMAIN ret.table = MessageType
        /\ ret.table["ProgressNotification"] = [max_per_second |-> 10, burst_capacity |-> 5]
        /\ ret.table["LoggingMessage"] = [max_per_second |-> 50, burst_capacity |-> 10]
        /\ ret.table["SamplingRequest"] = [max_per_second |-> 2, burst_capacity |-> 1]
        /\ ret.table["CompletionRequest"] = [max_per_second |-> 5, burst_capacity |-> 2]
        /\ ret.table["ElicitationRequest"] = [max_per_second |-> 1, burst_capacity |-> 1]
        /\ ret.table["ToolCall"] = [max_per_second |-> 20, burst_capacity |-> 5]
        /\ ret.table["Other"] = [max_per_second |-> 100, burst_capacity |-> 20]

\* the table was asked for a second time
C14_Witness ==
    /\ ret.tag = "Table"
    /\ arg = [op |-> "table_default", calls |-> 2]

-----------------------------------------------------------------------------
(* The limiter on its own: classify_message and check_limit called one after *)
(* the other on one MessageRateLimiter, as under the limiter guard.          *)

\* calls made on the limiter in one behaviour
MaxLimCalls == 3

\* the variants of R::Req and R::Not: those the classifiers name, and one
\* each that falls to the `_` arm
RequestVariants(r) ==
    IF r = "RoleClient"
    THEN {"CompleteRequest", "CallToolRequest", "PingRequest"}
    ELSE {"CreateMessageRequest", "CreateElicitationRequest", "PingRequest"}

NotificationVariants(r) ==
    IF r = "RoleClient"
    THEN {"ProgressNotification", "CancelledNotification"}
    ELSE {"ProgressNotification", "LoggingMessageNotification", "CancelledNotification"}

\* TxJsonRpcMessage<R>
TxMessages(r) ==
    {Request(v) : v \in RequestVariants(r)}
        \cup {Notification(v) : v \in NotificationVariants(r)}
        \cup {Response, ErrorMessage}

\* a limiter whose bucket map is one of B, and nothing called yet
LimInit(B) ==
    /\ now = 0
    /\ role \in Roles
    /\ buckets \in B
    /\ limiterLock = 0
    /\ innerLock = 0
    /\ pc = << >>
    /\ item = << >>
    /\ sid = << >>
    /\ budget = MaxLimCalls
    /\ hist = << >>
    /\ wire = << >>
    /\ BucketUnused
    /\ arg = [op |-> "none"]
    /\ ret = [tag |-> "none"]
    /\ seen = [m \in TxMessages(role) |-> {}]
    /\ IoUnused

\* classify_message(&msg); seen keeps each answer with the clock and the
\* buckets it was given under
LimClassify ==
    /\ budget > 0
    /\ \E msg \in TxMessages(role) :
          LET c == classify_message(role, msg) IN
          /\ arg' = [op |-> "classify", msg |-> msg, before |-> buckets]
          /\ ret' = [tag |-> "Category", category |-> c]
          /\ seen' = [seen EXCEPT ![msg] =
                        @ \cup {[category |-> c, at |-> now, buckets |-> buckets]}]
    /\ budget' = budget - 1
    /\ UNCHANGED <<now, role, buckets, limiterLock, innerLock, pc, item, sid, hist, wire,
                   bucketVars, ioVars>>

\* limiter.check_limit(&msg).await
LimCheck ==
    /\ budget > 0
    /\ \E msg \in TxMessages(role) :
          LET r == check_limit(buckets, role, msg, now) IN
          /\ arg' = [op |-> "check", msg |-> msg, before |-> buckets, at |-> now]
          /\ ret' = r.res
          /\ buckets' = r.buckets
    /\ budget' = budget - 1
    /\ UNCHANGED <<now, role, limiterLock, innerLock, pc, item, sid, hist, wire,
                   bucketVars, seen, ioVars>>

LimTick ==
    /\ now < MaxNow
    /\ now' = now + 1
    /\ UNCHANGED <<transportVars, bucketVars, callVars, ioVars>>

LimNext == LimClassify \/ LimCheck \/ LimTick

\* the limiter as MessageRateLimiter::new(RateLimitConfig::default()) builds it
LimiterInit == LimInit({MessageRateLimiter_new(RateLimitConfig_default, 0)})

LimiterSpec == LimiterInit /\ [][LimNext]_vars

\* a HashMap<MessageType, TokenBucket> holding only the keys K of f
Restrict(f, K) == [k \in K |-> f[k]]

\* values of the limiter's map type that lack some category
PartialMaps ==
    {Restrict(MessageRateLimiter_new(RateLimitConfig_default, 0), K) :
        K \in {{}, MessageType \ {"Other"}, {"Other", "LoggingMessage"}}}

PartialInit == LimInit(PartialMaps)

\* check_limit as a function of any limiter value, also one that
\* MessageRateLimiter::new does not build
PartialSpec == PartialInit /\ [][LimNext]_vars

\* C15: classify_message answers by the fixed table: completion request ->
\* CompletionRequest, tool call -> ToolCall, message creation -> SamplingRequest,
\* elicitation -> ElicitationRequest, progress notification of either role ->
\* ProgressNotification, logging notification -> LoggingMessage, and every other
\* request, notification, response or error -> Other.
C15_ClassifyTable ==
    arg.op = "classify" =>
        LET m == arg.msg
            isReq(v) == m.shape = "Request" /\ m.variant = v
            isNot(v) == m.shape = "Notification" /\ m.variant = v
        IN  ret = [tag |-> "Category", category |->
                CASE isReq("CompleteRequest")            -> "CompletionRequest"
                  [] isReq("CallToolRequest")            -> "ToolCall"
                  [] isReq("CreateMessageRequest")       -> "SamplingRequest"
                  [] isReq("CreateElicitationRequest")   -> "ElicitationRequest"
                  [] isNot("ProgressNotification")       -> "ProgressNotification"
                  [] isNot("LoggingMessageNotification") -> "LoggingMessage"
                  [] OTHER                               -> "Other"]

\* a server's logging notification was classified
C15_Witness ==
    /\ role = "RoleServer"
    /\ arg.op = "classify"
    /\ arg.msg = Notification("LoggingMessageNotification")
    /\ ret = [tag |-> "Category", category |-> "LoggingMessage"]

C19_DenialOnlyRefills ==
    (arg.op = "check" /\ ret.tag = "Err") =>
        LET c == classify_message(role, arg.msg) IN
        /\ ret.err = Exceeded(c)
        /\ c \in DOMAIN arg.before
        /\ buckets[c] = Refill(arg.before[c], arg.at)
        /\ buckets[c].tokens >= arg.before[c].tokens
        /\ buckets[c].tokens < One
        /\ \A k \in DOMAIN buckets \ {c} : buckets[k] = arg.before[k]
        /\ DOMAIN buckets = DOMAIN arg.before

\* a check was denied after the clock had advanced: its refill added a
\* fraction of a token and moved last_refill
C19_Witness ==
    /\ arg.op = "check"
    /\ ret.tag = "Err"
    /\ buckets[ret.err.message_type].tokens > arg.before[ret.err.message_type].tokens
    /\ buckets[ret.err.message_type].last_refill > arg.before[ret.err.message_type].last_refill

\* C20: a check of a message whose category has no bucket in the map allows
\* the message and changes no bucket.
C20_FailOpen ==
    (arg.op = "check" /\ classify_message(role, arg.msg) \notin DOMAIN arg.before) =>
        /\ ret = Ok
        /\ buckets = arg.before

\* a sampling request was checked three times against a map without a
\* sampling bucket, and the last check allowed it
C20_Witness ==
    /\ arg.op = "check"
    /\ arg.msg = Request("CreateMessageRequest")
    /\ "SamplingRequest" \notin DOMAIN arg.before
    /\ "Other" \in DOMAIN arg.before
    /\ ret = Ok
    /\ budget = 0

\* C21: MessageRateLimiter::new builds one full bucket for each of the seven
\* categories, seeded with that category's config, and after any sequence of
\* checks the map has the same seven keys and configs, so no check ever finds
\* its category without a bucket.
C21_SevenBucketsKept ==
    /\ DOMAIN buckets = MessageType
    /\ Cardinality(DOMAIN buckets) = 7
    /\ \A k \in MessageType : buckets[k].config = RateLimitConfig_default[k]
    /\ budget = MaxLimCalls =>
          \A k \in MessageType :
              /\ buckets[k].tokens = AsF64(RateLimitConfig_default[k].burst_capacity)
              /\ buckets[k].last_refill = 0
    /\ arg.op = "check" =>
          /\ DOMAIN arg.before = MessageType
          /\ classify_message(role, arg.msg) \in DOMAIN arg.before

\* a client's completion request was checked three times and the third check
\* was denied: the map still has its seven keys
C21_Witness ==
    /\ budget = 0
    /\ arg.op = "check"
    /\ ret.tag = "Err"
    /\ ret.err.message_type = "CompletionRequest"
    /\ buckets["CompletionRequest"].tokens < One
    /\ DOMAIN buckets = MessageType

\* C22: a check of a message of category C, allowed or denied, changes no
\* bucket but C's, and its verdict depends on C's bucket alone: it is allowed
\* exactly when C's bucket, refilled, holds a token, however empty the other
\* buckets are.
C22_CategoriesIndependent ==
    arg.op = "check" =>
        LET c == classify_message(role, arg.msg) IN
        /\ \A k \in MessageType \ {c} : buckets[k] = arg.before[k]
        /\ ret = Ok <=> Refill(arg.before[c], arg.at).tokens >= One
        /\ ret # Ok => ret = [tag |-> "Err", err |-> Exceeded(c)]

\* with the sampling bucket exhausted and a sampling request denied before,
\* an elicitation request was allowed
C22_Witness ==
    /\ arg.op = "check"
    /\ arg.msg = Request("CreateElicitationRequest")
    /\ ret = Ok
    /\ arg.before["SamplingRequest"].tokens < One
    /\ arg.before["SamplingRequest"].last_refill > 0

-----------------------------------------------------------------------------
(* RateLimitedTransport: receive and close beside the send futures           *)

\* calls of send, receive and close made in one behaviour
MaxIoCalls == 3

Some(v) == [tag |-> "Some", value |-> v]

None == [tag |-> "None"]

\* what the peer has sent: one message, then the end of the stream
Inbound == <<Response>>

\* the two tasks that drive the transport: send futures of the one may be
\* in flight while the other calls receive or close
IoTasks == {1, 2}

IoInit ==
    /\ now = 0
    /\ role = "RoleServer"
    /\ buckets = MessageRateLimiter_new(TightConfig, 0)
    /\ limiterLock = 0
    /\ innerLock = 0
    /\ pc = [s \in IoTasks |-> "idle"]
    /\ item = [s \in IoTasks |-> NoMessage]
    /\ sid = [s \in IoTasks |-> 0]
    /\ budget = MaxIoCalls
    /\ hist = << >>
    /\ wire = << >>
    /\ BucketUnused
    /\ CallUnused
    /\ inbox = Inbound
    /\ iolog = << >>

\* send calls the check has denied so far
Denials == Cardinality({i \in 1 .. Len(hist) : hist[i].verdict = "deny"})

\* a call of receive() or close(): the future is created; it owns no item
IoCall(s, op, entry) ==
    /\ pc[s] = "idle"
    /\ ~Borrowed
    /\ budget > 0
    /\ budget' = budget - 1
    /\ item' = [item EXCEPT ![s] = NoMessage]
    /\ iolog' = Append(iolog, [op |-> op, denials |-> Denials, invoked |-> 0,
                               inner |-> Pending, result |-> Pending])
    /\ sid' = [sid EXCEPT ![s] = Len(iolog) + 1]
    /\ pc' = [pc EXCEPT ![s] = entry]
    /\ UNCHANGED <<now, role, buckets, limiterLock, innerLock, hist, wire, bucketVars,
                   callVars, inbox>>

\* inner.lock().await returns the guard and the inner operation is invoked
IoAcquireInner(s, from, to) ==
    /\ pc[s] = from
    /\ innerLock = 0
    /\ innerLock' = s
    /\ iolog' = [iolog EXCEPT ![sid[s]].invoked = @ + 1]
    /\ pc' = [pc EXCEPT ![s] = to]
    /\ UNCHANGED <<now, role, buckets, limiterLock, item, sid, budget, hist, wire,
                   bucketVars, callVars, inbox>>

\* a receive that first queues for the limiter, as a send does
RecvEntryThrottled == "lock_limiter"

\* receive: the first await is inner.lock()
RecvEntry == "recv_lock"

Receive == \E s \in DOMAIN pc : IoCall(s, "receive", RecvEntry)

AcquireInnerRecv == \E s \in DOMAIN pc : IoAcquireInner(s, "recv_lock", "inner_recv")

\* transport.receive().await is the value of the async block
RecvResult(v) == v

\* the inner receive completes with the next inbound message, or None at the
\* end of the stream; receive returns and the guard is dropped
ReceiveReturn ==
    \E s \in DOMAIN pc :
        /\ pc[s] = "inner_recv"
        /\ LET v == IF inbox = << >> THEN None ELSE Some(Head(inbox)) IN
              iolog' = [iolog EXCEPT ![sid[s]] =
                          [@ EXCEPT !.inner = v, !.result = RecvResult(v)]]
        /\ inbox' = IF inbox = << >> THEN inbox ELSE Tail(inbox)
        /\ innerLock' = 0
        /\ pc' = [pc EXCEPT ![s] = "idle"]
        /\ UNCHANGED <<now, role, buckets, limiterLock, item, sid, budget, hist, wire,
                       bucketVars, callVars>>

Close == \E s \in DOMAIN pc : IoCall(s, "close", "close_lock")

AcquireInnerClose == \E s \in DOMAIN pc : IoAcquireInner(s, "close_lock", "inner_close")

\* a close that reports the inner failure as a rate-limit error
MapCloseErrAsRateLimit(out) ==
    IF out.tag = "Ok" THEN Ok ELSE RateLimitError(Exceeded("Other"))

\* .map_err(RateLimitedTransportError::Transport) on the inner close's result
MapCloseErr(out) == IF out.tag = "Ok" THEN Ok ELSE TransportError(out.err)

IoFaults == Cardinality({i \in 1 .. Len(iolog) : iolog[i].inner.tag = "Err"})

\* the inner close completes; close returns its result and the guard is dropped
CloseReturn ==
    \E s \in DOMAIN pc :
        /\ pc[s] = "inner_close"
        /\ \E out \in {Ok, [tag |-> "Err", err |-> "io_error"]} :
              /\ out = Ok \/ Faults + IoFaults < MaxFaults
              /\ iolog' = [iolog EXCEPT ![sid[s]] =
                            [@ EXCEPT !.inner = out, !.result = MapCloseErr(out)]]
        /\ innerLock' = 0
        /\ pc' = [pc EXCEPT ![s] = "idle"]
        /\ UNCHANGED <<now, role, buckets, limiterLock, item, sid, budget, hist, wire,
                       bucketVars, callVars, inbox>>

\* the clock stands still: no bucket refills while the calls are made
IoNext ==
    \/ Send
    \/ AcquireLimiter
    \/ CheckLimit
    \/ AcquireInner
    \/ InnerSendReturn
    \/ Receive
    \/ AcquireInnerRecv
    \/ ReceiveReturn
    \/ Close
    \/ AcquireInnerClose
    \/ CloseReturn

IoSpec == IoInit /\ [][IoNext]_vars

\* the futures are polled until they complete, and the inner transport
\* answers every operation it is given
IoFairSpec ==
    /\ IoSpec
    /\ WF_vars(AcquireLimiter)
    /\ WF_vars(CheckLimit)
    /\ WF_vars(AcquireInner)
    /\ WF_vars(InnerSendReturn)
    /\ WF_vars(AcquireInnerRecv)
    /\ WF_vars(ReceiveReturn)
    /\ WF_vars(AcquireInnerClose)
    /\ WF_vars(CloseReturn)

\* task s has a receive (or close) call in progress
InCall(s, op) ==
    /\ pc[s] # "idle"
    /\ item[s] = NoMessage
    /\ iolog[sid[s]].op = op

\* task s takes a step of its receive (or close) call
StepOfCall(s, op) ==
    /\ pc'[s] # pc[s]
    /\ InCall(s, op) \/ InCall(s, op)'

\* C17: receive is a pass-through that bucket state does not affect: a
\* receive in progress never waits for or holds the limiter lock, no step of it
\* changes a bucket, it invokes the inner receive once and returns exactly what
\* that returned, and every receive that was called returns, also when sends
\* are being denied.
C17_ReceivePassThrough ==
    /\ [](\A s \in IoTasks :
            InCall(s, "receive") => /\ pc[s] \in {"recv_lock", "inner_recv"}
                                    /\ limiterLock # s)
    /\ [](\A i \in 1 .. Len(iolog) :
            (iolog[i].op = "receive" /\ iolog[i].result # Pending) =>
                /\ iolog[i].invoked = 1
                /\ iolog[i].result = iolog[i].inner)
    /\ [][\A s \in IoTasks :
            StepOfCall(s, "receive") => /\ buckets' = buckets
                                        /\ limiterLock' = limiterLock]_vars
    /\ \A s \in IoTasks : InCall(s, "receive") ~> (pc[s] = "idle")

\* a receive called after a send had been denied returned the inbound message,
\* the sampling bucket still empty
C17_Witness ==
    /\ buckets["SamplingRequest"].tokens < One
    /\ \E i \in 1 .. Len(iolog) :
          /\ iolog[i].op = "receive"
          /\ iolog[i].denials >= 1
          /\ iolog[i].result = Some(Response)

\* C18: close is a pass-through: it invokes the inner close exactly once,
\* returns Ok when that succeeds and Transport(e) when it fails with e, never a
\* rate-limit error, never takes the limiter lock, and no step of it changes a
\* bucket.
C18_ClosePassThrough ==
    /\ [](\A s \in IoTasks :
            InCall(s, "close") => /\ pc[s] \in {"close_lock", "inner_close"}
                                  /\ limiterLock # s)
    /\ [](\A i \in 1 .. Len(iolog) :
            (iolog[i].op = "close" /\ iolog[i].result # Pending) =>
                /\ iolog[i].invoked = 1
                /\ iolog[i].inner.tag = "Ok" => iolog[i].result = [tag |-> "Ok"]
                /\ iolog[i].inner.tag = "Err" =>
                      iolog[i].result = [tag |-> "Transport", err |-> iolog[i].inner.err]
                /\ iolog[i].result.tag # "RateLimit")
    /\ [][\A s \in IoTasks : StepOfCall(s, "close") => buckets' = buckets]_vars

\* a close called after a send had been denied failed in the inner transport
\* and returned Transport(io_error)
C18_Witness ==
    \E i \in 1 .. Len(iolog) :
        /\ iolog[i].op = "close"
        /\ iolog[i].denials >= 1
        /\ iolog[i].invoked = 1
        /\ iolog[i].result = [tag |-> "Transport", err |-> "io_error"]

-----------------------------------------------------------------------------
(* Claims about the order of concurrent sends (Spec)                         *)

\* C23: nothing orders the forwarding of two senders that have both passed
\* their check: whenever both wait for the inner transport and it is free,
\* either of them may be the next one handed to the inner transport's send,
\* whatever the order of their checks was.
C23_NoForwardOrder ==
    \A a, b \in DOMAIN pc :
        (a # b /\ pc[a] = "lock_inner" /\ pc[b] = "lock_inner" /\ innerLock = 0) =>
            /\ ENABLED (AcquireInner /\ innerLock' = a)
            /\ ENABLED (AcquireInner /\ innerLock' = b)

\* the only sampling request was checked at instant 0 and allowed, the only
\* response was checked at a later instant and allowed, and the response is
\* in the inner transport's send while the sampling request still waits
C23_Witness ==
    \E a, b \in DOMAIN pc :
        /\ pc[a] = "lock_inner"
        /\ pc[b] = "inner_send"
        /\ hist[sid[a]].msg = Request("CreateMessageRequest")
        /\ hist[sid[b]].msg = Response
        /\ CheckedOf("SamplingRequest") = {sid[a]}
        /\ CheckedOf("Other") = {sid[b]}
        /\ buckets["SamplingRequest"].last_refill < buckets["Other"].last_refill
        /\ OnWire(sid[a]) = 0
        /\ OnWire(sid[b]) = 1

-----------------------------------------------------------------------------
(* One category's bucket over time: the checks of one category, serialized   *)
(* by the limiter lock, each a try_consume at the clock reading it meets.    *)

\* the clock readings and the checks of one behaviour
MaxWinNow == 6

MaxWinCalls == 8

\* configurations TokenBucketConfig::new accepts
WinConfigs ==
    {new_unchecked(10, 1), new_unchecked(10, 2), new_unchecked(5, 2), new_unchecked(20, 1)}

WinInit ==
    /\ now = 0
    /\ TransportUnused
    /\ \E config \in WinConfigs :
          /\ tb = TokenBucket_new(config, 0)
          /\ last = [op |-> "new", elapsed |-> 0, ok |-> TRUE, before |-> tb.tokens]
    /\ run = [kind |-> "new", calls |-> 0, oks |-> 0]
    /\ CallUnused
    /\ IoUnused

\* a check of the category: try_consume; seen lists the instants of the
\* checks that were admitted
WinTryConsume ==
    /\ run.calls < MaxWinCalls
    /\ LET r == try_consume(tb, now) IN
          /\ tb' = r.bucket
          /\ seen' = IF r.ok THEN Append(seen, now) ELSE seen
          /\ run' = [run EXCEPT !.calls = @ + 1, !.oks = @ + (IF r.ok THEN 1 ELSE 0)]
    /\ UNCHANGED <<now, transportVars, last, arg, ret, ioVars>>

WinTick ==
    /\ now < MaxWinNow
    /\ now' = now + 1
    /\ UNCHANGED <<transportVars, bucketVars, callVars, ioVars>>

WinNext == WinTryConsume \/ WinTick

WindowSpec == WinInit /\ [][WinNext]_vars

\* C24: the messages of one category admitted during any time window of
\* T seconds number at most burst + rate * T: for any two admissions, those
\* from the one to the other are at most burst + rate * (the time between).
C24_WindowBound ==
    \A i, j \in 1 .. Len(seen) :
        i <= j =>
            (j - i + 1) * TicksPerSec
                <= tb.config.burst_capacity * TicksPerSec
                     + tb.config.max_per_second * (seen[j] - seen[i])

\* a window of positive length was filled to the bound, and a check was denied
C24_Witness ==
    /\ run.calls > run.oks
    /\ \E i, j \in 1 .. Len(seen) :
          /\ seen[j] > seen[i]
          /\ (j - i + 1) * TicksPerSec
                = tb.config.burst_capacity * TicksPerSec
                    + tb.config.max_per_second * (seen[j] - seen[i])

-----------------------------------------------------------------------------
(* Claims about refill and try_consume (BucketSpec).  `last` holds what the  *)
(* last operation met: the count before, the elapsed time, whether the clock *)
(* reading was earlier than last_refill, and refill's tokens_to_add.         *)

RefillOps == {"try_consume", "force_refill"}

\* the count refill left, before try_consume's decrement
Refilled == tb.tokens + (IF last.op = "try_consume" /\ last.ok THEN One ELSE 0)

\* C25: refill leaves min(burst, max(0, tokens + min(elapsed, 24h) * rate)),
\* elapsed being the monotonic time since last_refill: the code, which takes
\* the min with burst first and the max with 0 second, gives this value.
C25_RefillFormula ==
    last.op \in RefillOps =>
        Refilled = Min(AsF64(tb.config.burst_capacity),
                       Max(0, last.before
                                + Min(last.elapsed, 86400 * TicksPerSec)
                                    * tb.config.max_per_second))

\* a refill added part of what the bucket lacked
C25_Witness ==
    /\ last.op = "force_refill"
    /\ last.elapsed > 0
    /\ last.before > 0
    /\ tb.tokens > last.before
    /\ tb.tokens < AsF64(tb.config.burst_capacity)

\* C26: the elapsed time refill uses is clamped to [0, 24 hours]:
\* tokens_to_add lies within [0, 86400 * rate], a clock reading earlier than
\* last_refill counts as no time elapsed, and refill never lowers the count.
C26_ElapsedClamped ==
    last.op \in RefillOps =>
        /\ 0 <= last.tokens_to_add
        /\ last.tokens_to_add <= 86400 * TicksPerSec * tb.config.max_per_second
        /\ last.early => last.tokens_to_add = 0
        /\ Refilled >= last.before

\* a refill met more than 24 hours and added 24 hours' worth
C26_Witness ==
    /\ last.op = "force_refill"
    /\ last.elapsed > 86400 * TicksPerSec
    /\ tb.config.max_per_second > 0
    /\ last.tokens_to_add = 86400 * TicksPerSec * tb.config.max_per_second

\* C27: every refill leaves last_refill at the current instant, whatever the
\* bucket held, and every try_consume refills before it looks at the count:
\* a call that finds less than a token but enough elapsed time succeeds.
C27_RefillNeverSkipped ==
    /\ [][(/\ now' = now
           /\ bucketVars' # bucketVars
           /\ last'.op \in RefillOps) => tb'.last_refill = now]_vars
    /\ [](last.op = "try_consume" =>
            (last.ok <=>
                Min(AsF64(tb.config.burst_capacity),
                    last.before + Min(last.elapsed, 86400 * TicksPerSec)
                                    * tb.config.max_per_second) >= One))

\* a try_consume that failed, time having elapsed, moved last_refill to now
C27_Witness ==
    /\ last.op = "try_consume"
    /\ ~last.ok
    /\ last.elapsed > 0
    /\ now > 0
    /\ tb.last_refill = now

\* C28: try_consume succeeds exactly when the refilled count is at least one
\* token and then subtracts exactly one; when it fails the count stays the
\* refilled value.
C28_ConsumeExactlyOne ==
    last.op = "try_consume" =>
        LET refilled == Max(Min(last.before + last.tokens_to_add,
                                AsF64(tb.config.burst_capacity)), 0)
        IN  /\ last.ok <=> refilled >= One
            /\ last.ok => tb.tokens = refilled - One
            /\ ~last.ok => tb.tokens = refilled

\* a try_consume failed on a fraction of a token that its refill had raised,
\* and left that fraction
C28_Witness ==
    /\ last.op = "try_consume"
    /\ ~last.ok
    /\ tb.tokens > last.before
    /\ tb.tokens > 0
    /\ tb.tokens < One

-----------------------------------------------------------------------------
(* Senders whose inner send may never return: the limiter is scheduled       *)
(* fairly, the inner transport is not.                                       *)

\* send calls of one behaviour
MaxStallSends == 3

StallInit == TransportInit({"RoleServer"}, IoTasks, MaxStallSends, TightConfig)

StallNext ==
    \/ Send
    \/ AcquireLimiter
    \/ CheckLimit
    \/ AcquireInner
    \/ InnerSendReturn

StallSpec == StallInit /\ [][StallNext]_vars

\* the limiter mutex serves every waiter (tokio's Mutex is fair) and a polled
\* future runs its check; nothing is assumed of the inner mutex or of the
\* inner transport's send, which may stay pending for ever
StallFairSpec ==
    /\ StallSpec
    /\ \A s \in IoTasks : SF_vars(AcquireLimiter /\ limiterLock' = s)
    /\ WF_vars(CheckLimit)

\* C29: a check never waits for a forwarding step: whatever the inner
\* transport does, also when an inner send stays pending for ever, every
\* sender that waits for or holds the limiter lock gets its verdict, and a
\* denied sender has its rejection at once, never having waited for or held
\* the inner transport lock.
C29_CheckNeverWaitsForForward ==
    /\ \A s \in IoTasks :
          (pc[s] \in {"lock_limiter", "check"}) ~> (pc[s] \notin {"lock_limiter", "check"})
    /\ [](\A i \in 1 .. Len(hist) :
            hist[i].verdict = "deny" =>
                /\ hist[i].result = RateLimitError(Exceeded(Category(i)))
                /\ hist[i].inner = "none"
                /\ OnWire(i) = 0)
    /\ [](\A s \in IoTasks :
            (innerLock = s \/ pc[s] \in {"lock_inner", "inner_send"}) =>
                hist[sid[s]].verdict = "allow")

\* one sender is inside the inner transport's send, and the other's later
\* sampling request has been denied and has returned
C29_Witness ==
    \E s, t \in IoTasks :
        /\ pc[s] = "inner_send"
        /\ innerLock = s
        /\ hist[sid[s]].msg = Request("CreateMessageRequest")
        /\ pc[t] = "idle"
        /\ sid[t] > sid[s]
        /\ hist[sid[t]].result = RateLimitError(Exceeded("SamplingRequest"))

-----------------------------------------------------------------------------
(* Send futures that are dropped before they complete                        *)

\* send calls of one behaviour
MaxCancelSends == 3

Cancelled == [tag |-> "Cancelled"]

CancelInit == TransportInit({"RoleServer"}, IoTasks, MaxCancelSends, TightConfig)

\* the await points of send, where its future can be dropped: the two lock()
\* calls and the inner send
AwaitPcs == {"lock_limiter", "lock_inner", "inner_send"}

\* a drop that hands the token of the abandoned message back to its bucket
AbandonRefund(bs, msg) ==
    LET c == classify_message(role, msg) IN
    [bs EXCEPT ![c].tokens = Min(@ + One, AsF64(bs[c].config.burst_capacity))]

\* what dropping the future does to the buckets: send has no drop handler,
\* only its guards are released
Abandon(bs, msg) == bs

\* a guard that outlives the future that held it
GuardLeaked(lock, s) == lock

\* dropping the future of s drops the MutexGuard it holds, if it holds one; a
\* future that only waits in lock() leaves the mutex as it is
GuardReleased(lock, s) == IF lock = s THEN 0 ELSE lock

\* the caller drops the future of a send at one of its await points; a guard
\* the future holds is released, the inner send's future is dropped with it
Cancel ==
    \E s \in DOMAIN pc :
        /\ pc[s] \in AwaitPcs
        /\ buckets' = IF hist[sid[s]].verdict = "allow"
                      THEN Abandon(buckets, item[s])
                      ELSE buckets
        /\ limiterLock' = GuardReleased(limiterLock, s)
        /\ innerLock' = GuardReleased(innerLock, s)
        /\ hist' = [hist EXCEPT ![sid[s]].result = Cancelled]
        /\ pc' = [pc EXCEPT ![s] = "idle"]
        /\ UNCHANGED <<now, role, item, sid, budget, wire, bucketVars,
                       callVars, ioVars>>

CancelNext ==
    \/ Send
    \/ AcquireLimiter
    \/ CheckLimit
    \/ AcquireInner
    \/ InnerSendReturn
    \/ Cancel
    \/ Tick

CancelSpec == CancelInit /\ [][CancelNext]_vars

\* C30: admission is never rolled back: the buckets change in check steps
\* only, so a token an allowed check consumed is not returned when the inner
\* send fails or when the send is dropped after its check; a send that was
\* dropped has reached the inner transport at most once and never reaches it
\* again.
C30_NoRollback ==
    /\ [][buckets' # buckets =>
            \E s \in DOMAIN pc :
                /\ pc[s] = "check"
                /\ pc'[s] # "check"
                /\ buckets' = check_limit(buckets, role, item[s], now).buckets]_vars
    /\ [](\A i \in 1 .. Len(hist) : OnWire(i) <= 1)
    /\ [][\A i \in 1 .. Len(hist) :
            hist[i].result = Cancelled => OnWire(i)' = OnWire(i)]_vars

\* at instant 0 a sampling request was allowed and handed to the inner
\* transport, its send was dropped there, and the sampling bucket is still
\* empty: a later sampling request has been denied
C30_Witness ==
    /\ now = 0
    /\ buckets["SamplingRequest"].tokens = 0
    /\ \E i, j \in 1 .. Len(hist) :
          /\ i < j
          /\ hist[i].msg = Request("CreateMessageRequest")
          /\ hist[i].verdict = "allow"
          /\ hist[i].result = Cancelled
          /\ OnWire(i) = 1
          /\ hist[j].result = RateLimitError(Exceeded("SamplingRequest"))

-----------------------------------------------------------------------------
(* Send futures dropped while other callers send, receive and close          *)

\* the calls of one behaviour: sends that may be dropped, receives and closes
DropNext ==
    \/ Send
    \/ AcquireLimiter
    \/ CheckLimit
    \/ AcquireInner
    \/ InnerSendReturn
    \/ Cancel
    \/ Receive
    \/ AcquireInnerRecv
    \/ ReceiveReturn
    \/ Close
    \/ AcquireInnerClose
    \/ CloseReturn

DropSpec == IoInit /\ [][DropNext]_vars

\* the futures that are not dropped are polled until they complete, and the
\* inner transport answers every operation it is given; whether and when a
\* caller drops a send is up to the caller
DropFairSpec ==
    /\ DropSpec
    /\ WF_vars(AcquireLimiter)
    /\ WF_vars(CheckLimit)
    /\ WF_vars(AcquireInner)
    /\ WF_vars(InnerSendReturn)
    /\ WF_vars(AcquireInnerRecv)
    /\ WF_vars(ReceiveReturn)
    /\ WF_vars(AcquireInnerClose)
    /\ WF_vars(CloseReturn)

\* send calls that were dropped
Dropped == {i \in 1 .. Len(hist) : hist[i].result = Cancelled}

\* C31: a send dropped at any of its await points (waiting for the limiter
\* lock, waiting for the inner transport lock, inside the inner send) leaves
\* neither lock held: the step that drops it leaves both locks with other
\* tasks or free, a task with no call in progress holds no lock, and every
\* call of send, receive or close that is in progress, dropped sends
\* notwithstanding, returns.
C31_CancelReleasesLocks ==
    /\ [][\A s \in IoTasks :
            (pc[s] \in AwaitPcs /\ hist'[sid[s]].result = Cancelled
                /\ hist[sid[s]].result # Cancelled) =>
                    /\ pc'[s] = "idle"
                    /\ limiterLock' # s
                    /\ innerLock' # s
                    /\ limiterLock # s => limiterLock' = limiterLock
                    /\ innerLock # s => innerLock' = innerLock]_vars
    /\ [](\A s \in IoTasks : pc[s] = "idle" => limiterLock # s /\ innerLock # s)
    /\ \A s \in IoTasks : (pc[s] # "idle") ~> (pc[s] = "idle")

\* a sampling request was dropped inside the inner send, a response was dropped
\* while it waited for a lock, and the other task now holds the inner
\* transport lock in a receive
C31_Witness ==
    \E s, t \in IoTasks :
        /\ s # t
        /\ pc[s] = "idle"
        /\ \E i, j \in Dropped :
              /\ OnWire(i) = 1
              /\ OnWire(j) = 0
              /\ hist[j].verdict = "pending"
        /\ pc[t] = "inner_recv"
        /\ innerLock = t

-----------------------------------------------------------------------------
(* A receive on a connection whose peer is silent: the inner transport's     *)
(* receive stays pending until a message arrives.                            *)

\* messages the peer sends in one behaviour
MaxInbound == 1

QuietInit ==
    /\ now = 0
    /\ role = "RoleServer"
    /\ buckets = MessageRateLimiter_new(TightConfig, 0)
    /\ limiterLock = 0
    /\ innerLock = 0
    /\ pc = [s \in IoTasks |-> "idle"]
    /\ item = [s \in IoTasks |-> NoMessage]
    /\ sid = [s \in IoTasks |-> 0]
    /\ budget = MaxIoCalls
    /\ hist = << >>
    /\ wire = << >>
    /\ BucketUnused
    /\ CallUnused
    /\ inbox = << >>
    /\ iolog = << >>

\* inbound messages the inner transport has been given so far
Delivered == Len(inbox) + Cardinality({i \in 1 .. Len(iolog) : iolog[i].result.tag = "Some"})

\* a message of the peer arrives at the inner transport
Deliver ==
    /\ Delivered < MaxInbound
    /\ inbox' = Append(inbox, Response)
    /\ UNCHANGED <<now, transportVars, bucketVars, callVars, iolog>>

\* transport.receive().await completes once a message is there; until then the
\* future of receive stays pending, the guard of inner.lock() in its hands
ReceiveDelivered ==
    /\ inbox # << >>
    /\ ReceiveReturn

QuietNext ==
    \/ Send
    \/ AcquireLimiter
    \/ CheckLimit
    \/ AcquireInner
    \/ InnerSendReturn
    \/ Receive
    \/ AcquireInnerRecv
    \/ ReceiveDelivered
    \/ Close
    \/ AcquireInnerClose
    \/ CloseReturn
    \/ Deliver

QuietSpec == QuietInit /\ [][QuietNext]_vars

\* every future is polled until it completes and the inner transport answers
\* every send and close, and every receive once a message is there; when the
\* peer sends, if ever, is up to the peer
QuietFairSpec ==
    /\ QuietSpec
    /\ WF_vars(AcquireLimiter)
    /\ WF_vars(CheckLimit)
    /\ WF_vars(AcquireInner)
    /\ WF_vars(InnerSendReturn)
    /\ WF_vars(AcquireInnerRecv)
    /\ WF_vars(ReceiveDelivered)
    /\ WF_vars(AcquireInnerClose)
    /\ WF_vars(CloseReturn)

\* C32: an allowed send makes progress independently of receive: a send
\* whose check has passed reaches the inner transport's send, also while a
\* receive is pending and no inbound message is available.
C32_SendIndependentOfReceive ==
    \A s \in IoTasks : (pc[s] = "lock_inner") ~> (pc[s] = "inner_send")

-----------------------------------------------------------------------------
(* Claims about the two locks under concurrent send, receive and close       *)
(* (IoFairSpec: every inner operation returns)                               *)

\* positions at which a future waits in rate_limiter.lock() or inner.lock()
LockWaitPcs == {"lock_limiter", "lock_inner", "recv_lock", "close_lock"}

\* positions at which a future is inside an operation of the inner transport
InnerOpPcs == {"inner_send", "inner_recv", "inner_close"}

\* C33: send, receive and close never deadlock on the decorator's two locks:
\* a task that holds the limiter lock is running its check and a task that
\* holds the inner transport lock is inside an inner operation, so no task
\* waits for a lock while it holds one, and none holds both; while a call is
\* in progress some step of some call can be taken; and, every inner
\* operation returning, every call of send, receive or close returns.
C33_NoDeadlock ==
    /\ [](\A s \in IoTasks :
            /\ limiterLock = s => pc[s] = "check"
            /\ innerLock = s => pc[s] \in InnerOpPcs
            /\ pc[s] \in LockWaitPcs => limiterLock # s /\ innerLock # s
            /\ ~(limiterLock = s /\ innerLock = s))
    /\ []((\E s \in IoTasks : pc[s] # "idle") =>
            ENABLED (\/ AcquireLimiter \/ CheckLimit \/ AcquireInner \/ InnerSendReturn
                     \/ AcquireInnerRecv \/ ReceiveReturn
                     \/ AcquireInnerClose \/ CloseReturn))
    /\ \A s \in IoTasks : (pc[s] \in LockWaitPcs \cup InnerOpPcs \cup {"check"}) ~> (pc[s] = "idle")

\* a close holds the inner transport lock while an allowed send of the other
\* task waits for it, a receive having returned before
C33_Witness ==
    \E s, t \in IoTasks :
        /\ pc[s] = "inner_close"
        /\ innerLock = s
        /\ pc[t] = "lock_inner"
        /\ hist[sid[t]].verdict = "allow"
        /\ \E i \in 1 .. Len(iolog) : iolog[i].op = "receive" /\ iolog[i].result # Pending

-----------------------------------------------------------------------------
(* Claims about one sender that awaits each send (SeqSpec)                   *)

\* send calls the check has allowed, and those handed to the inner transport
AllowedIds == {i \in Ids : hist[i].verdict = "allow"}

WireIds == {wire[k].id : k \in 1 .. Len(wire)}

\* C35: for a single sender that awaits each send before it issues the next,
\* the inner transport's send is invoked for the allowed messages in exactly
\* the order of the send calls, each with the message that was sent, denied
\* messages absent: the invocations are in increasing order of call, they
\* are the allowed calls, and the only allowed call not yet invoked is the
\* one in progress, waiting for the inner transport lock.
C35_SingleSenderOrder ==
    /\ \A k, l \in 1 .. Len(wire) : k < l => wire[k].id < wire[l].id
    /\ \A k \in 1 .. Len(wire) : wire[k].msg = hist[wire[k].id].msg
    /\ WireIds \subseteq AllowedIds
    /\ \A i \in Ids : hist[i].verdict = "deny" => i \notin WireIds
    /\ \A i \in AllowedIds \ WireIds :
          /\ i = Len(hist)
          /\ \A s \in DOMAIN pc : pc[s] = "lock_inner"

\* a sampling request was forwarded, the next was denied, and the response
\* sent after it was forwarded second
C35_Witness ==
    /\ Len(hist) >= 3
    /\ hist[1].verdict = "allow"
    /\ hist[2].verdict = "deny"
    /\ hist[3].verdict = "allow"
    /\ hist[1].msg # hist[3].msg
    /\ Len(wire) = 2
    /\ wire[1] = [id |-> 1, msg |-> hist[1].msg]
    /\ wire[2] = [id |-> 3, msg |-> hist[3].msg]

-----------------------------------------------------------------------------
(* An exhausted bucket that is polled: try_consume called again and again    *)
(* while the clock advances.                                                 *)

\* the clock readings and the try_consume calls of one behaviour
MaxPollNow == 10

MaxPollCalls == 6

\* configurations TokenBucketConfig::new accepts, a token taking several ticks
PollConfigs ==
    {new_unchecked(1, 1), new_unchecked(2, 1), new_unchecked(3, 2), new_unchecked(5, 2)}

PollInit ==
    /\ now = 0
    /\ TransportUnused
    /\ \E config \in PollConfigs :
          /\ tb = TokenBucket_new(config, 0)
          /\ last = [op |-> "new", elapsed |-> 0, ok |-> TRUE, before |-> tb.tokens]
    /\ run = [kind |-> "new", calls |-> 0, oks |-> 0]
    /\ CallUnused
    /\ IoUnused

\* bucket.try_consume(); arg holds the instant at which a successful call left
\* the bucket empty and the refused calls made since, last what this call met
PollTryConsume ==
    /\ run.calls < MaxPollCalls
    /\ LET r == try_consume(tb, now)
           polled == arg.op = "empty"
       IN /\ tb' = r.bucket
          /\ last' = [op |-> "try_consume",
                      elapsed |-> ElapsedSeen(tb),
                      ok |-> r.ok, before |-> tb.tokens,
                      polled |-> polled,
                      since |-> IF polled THEN now - arg.at ELSE 0,
                      fails |-> IF polled THEN arg.fails ELSE 0]
          /\ arg' = IF r.ok
                    THEN IF r.bucket.tokens = 0
                         THEN [op |-> "empty", at |-> now, fails |-> 0]
                         ELSE [op |-> "none"]
                    ELSE IF polled THEN [arg EXCEPT !.fails = @ + 1] ELSE arg
          /\ run' = [run EXCEPT !.calls = @ + 1, !.oks = @ + (IF r.ok THEN 1 ELSE 0)]
    /\ UNCHANGED <<now, transportVars, ret, seen, ioVars>>

\* the monotonic clock advances between two calls
PollTick ==
    /\ \E d \in {1, 3} :
          /\ now + d <= MaxPollNow
          /\ now' = now + d
    /\ UNCHANGED <<transportVars, bucketVars, callVars, ioVars>>

PollNext == PollTryConsume \/ PollTick

PollSpec == PollInit /\ [][PollNext]_vars

-----------------------------------------------------------------------------
(* refill for the configurations TokenBucketConfig::new accepts, over        *)
(* elapsed times from a tick to more than a day                              *)

\* clock advances and try_consume calls of one behaviour
MaxClampTicks == 3

MaxClampCalls == 2

\* rates and bursts tried: the edges of the burst <= 60 * rate check
ClampRates == {1, 2, 10, 166, 167, 400}

ClampBursts == {1, 60, 61, 120, 600, 601, 9960, 9961, 10000, 10001}

\* clock advances between two refills: a tick, just under a minute, a minute,
\* a day, just over a day
ClampSteps == {1, BurstWindowSecs * TicksPerSec - 1, BurstWindowSecs * TicksPerSec, Day, Day + 1}

\* a bucket of a configuration TokenBucketConfig::new returned, holding
\* nothing, one token, or its burst
ClampInit ==
    /\ now = 0
    /\ TransportUnused
    /\ \E max_per_second \in ClampRates, burst_capacity \in ClampBursts :
          LET r == TokenBucketConfig_new(max_per_second, burst_capacity) IN
          /\ r.tag = "Ok"
          /\ \E tokens \in {0, One, AsF64(burst_capacity)} :
                tb = [TokenBucket_new(r.config, 0) EXCEPT !.tokens = tokens]
    /\ last = [op |-> "new", elapsed |-> 0, ok |-> TRUE, before |-> tb.tokens]
    /\ run = [kind |-> "new", calls |-> 0, oks |-> 0]
    /\ CallUnused
    /\ IoUnused

\* what refill would leave if elapsed_secs were not clamped
RefillUnclamped(b, t) ==
    [b EXCEPT !.tokens = Max(Min(b.tokens + saturating_duration_since(t, b.last_refill)
                                               * b.config.max_per_second,
                                 AsF64(b.config.burst_capacity)), 0),
              !.last_refill = t]

\* bucket.refill(); last holds the elapsed time it met, unclamped, the count
\* before, and what an unclamped refill would have left
ClampRefill ==
    /\ tb' = Refill(tb, now)
    /\ last' = [op |-> "force_refill",
                elapsed |-> saturating_duration_since(now, tb.last_refill),
                ok |-> TRUE, before |-> tb.tokens,
                unclamped |-> RefillUnclamped(tb, now).tokens]
    /\ UNCHANGED <<now, run, transportVars, callVars, ioVars>>

\* bucket.try_consume() on the refilled bucket takes a token out
ClampConsume ==
    /\ run.oks < MaxClampCalls
    /\ tb.last_refill = now
    /\ tb.tokens >= One
    /\ tb' = try_consume(tb, now).bucket
    /\ last' = [op |-> "try_consume", elapsed |-> 0, ok |-> TRUE, before |-> tb.tokens]
    /\ run' = [run EXCEPT !.oks = @ + 1]
    /\ UNCHANGED <<now, transportVars, callVars, ioVars>>

\* the monotonic clock advances; run counts the advances and the consumes
ClampTick ==
    /\ run.calls < MaxClampTicks
    /\ \E d \in ClampSteps : now' = now + d
    /\ run' = [run EXCEPT !.calls = @ + 1]
    /\ UNCHANGED <<tb, last, transportVars, callVars, ioVars>>

ClampNext == ClampRefill \/ ClampConsume \/ ClampTick

ClampSpec == ClampInit /\ [][ClampNext]_vars

\* C36: for every configuration TokenBucketConfig::new accepts, a day's
\* accumulation is at least the burst (86400 * rate >= burst), so the 24-hour
\* clamp never changes what refill leaves: it is what a refill over the
\* unclamped elapsed time would leave; and a refill that meets 60 seconds or
\* more leaves the bucket full, an empty bucket included.
C36_ClampNeverBinds ==
    /\ MAX_ELAPSED_SECS * tb.config.max_per_second >= tb.config.burst_capacity
    /\ BurstWindowSecs * tb.config.max_per_second >= tb.config.burst_capacity
    /\ last.op = "force_refill" =>
          /\ tb.tokens = last.unclamped
          /\ last.elapsed >= BurstWindowSecs * TicksPerSec =>
                tb.tokens = AsF64(tb.config.burst_capacity)

\* rate 1, burst 60, the slowest bucket accepted: holding less than a token
\* after an earlier refill, it met more than a day, where the clamp applies,
\* and is full
C36_Witness ==
    /\ last.op = "force_refill"
    /\ tb.config = new_unchecked(1, 60)
    /\ last.before < One
    /\ tb.last_refill > last.elapsed
    /\ last.elapsed > Day
    /\ tb.tokens = AsF64(tb.config.burst_capacity)
    /\ last.unclamped = tb.tokens

====
